---- MODULE Spec2Model ----
(***************************************************************************)
(* Model of package backfill of ngrash/tgstat: the linkedListRecorder      *)
(* (Inc, Write, record.forward) and the Metrics/Metric label handles, and   *)
(* of the chat analysis of package main that records through them.         *)
(*                                                                         *)
(* Scaling.  uint64 is scaled to UintBits bits (all arithmetic on record   *)
(* values is taken modulo Modulus).  time.Time is an integer number of     *)
(* ticks; one second has TicksPerSecond ticks (the code has 10^9), so      *)
(* Time.Unix() is a floor division and not the identity.                   *)
(***************************************************************************)
EXTENDS Integers, Sequences, FiniteSets, TLC

\* ------------------------------------------------------------------ bounds
UintBits == 2
TicksPerSecond == 2
MaxTime == 2
MaxNodes == 3
MaxRes == 2
MaxHandles == 5
MaxFiles == 2
MaxMessages == 2

Modulus == 2 ^ UintBits
MaxUint == Modulus - 1
\* The step loop of Write has no upper bound; the model stops following a
\* call after MaxSteps steps (every terminating call with a positive
\* resolution needs at most MaxTime + 1).
MaxSteps == MaxTime + 2

Names == {"foo", "bar"}
Amounts == {0, 1, MaxUint}
Times == 0 .. MaxTime
Resolutions == -1 .. MaxRes
\* Label keys and values and counter names handed to With and Metric.  With
\* takes any string as a key: one key here holds the characters =, ", \ and
\* the comma.  The value holds a double quote, which %#v escapes.
CounterNames == {"qux"}
LabelKeys == {"x", "y", "x=\"a\\\"\",y"}
LabelValues == {"a\""}

\* The chat exports handed to readAndAnalyzeChatExports: files, senders,
\* message dates (whole seconds: the export format has no fraction), texts,
\* the alias maps (old name, new name) and the expression lists (literal
\* patterns, which match the texts that contain them).
Files == {"a.json", "b.json"}
FileLists == {<<"a.json">>, <<"a.json", "a.json">>, <<"a.json", "b.json">>,
              <<"b.json", "a.json">>}
Senders == {"", "ann", "bob"}
Dates == {0, TicksPerSecond}
TextLists == {<<>>, <<"hi">>}
AliasMaps == {{}, {[old |-> "bob", new |-> "ann"]}, {[old |-> "ann", new |-> ""]}}
ExpressionLists == {<<>>, <<"x", "h">>}

Nil == 0

VARIABLES
    nodes,      \* the heap of record objects: Seq of [value, at, next]
    first,      \* linkedListRecorder.first:   name -> index into nodes
    current,    \* linkedListRecorder.current: name -> index into nodes
    w,          \* the frame of the running Write call (pc, resolution, now, cursors)
    out,        \* the sink of the latest Write call, kept until the next call
    prev,       \* history: the sink of the Write call before the latest one, when that
                \* call returned nil, had the same resolution and no Inc came between
    last,       \* history: the latest completed call and what it returned
    accepted,   \* history: the increments Inc has accepted, in call order
    panicked,   \* a call has panicked (the program is dead)
    arrays,     \* the heap of backing arrays of label slices: Seq of Seq of label
    handles,    \* the Metrics and Metric objects created so far
    calls,      \* history: the Metric.Inc calls that reached the recorder
    chat        \* readAndAnalyzeChatExports and analyzeChat: inputs, position, locals

recVars == <<nodes, first, current, w, out, prev, last, accepted>>
vars == <<nodes, first, current, w, out, prev, last, accepted, panicked, arrays, handles,
          calls, chat>>

\* No chat analysis is running (the recorder is driven directly).
NoChat ==
    [pc |-> "off", files |-> <<>>, exports |-> <<>>, aliases |-> {}, expressions |-> <<>>,
     fi |-> 0, data |-> <<>>, mi |-> 0, ti |-> 0, ei |-> 0,
     hFile |-> 0, hSender |-> 0, hMetric |-> 0]

\* The model follows at most this many records and handles.  A chat analysis
\* of MaxFiles files of MaxMessages messages never needs more than it is given
\* here: three records and five handles for a message, one handle for a file.
NodeLimit == IF chat.pc = "off" THEN MaxNodes ELSE 3 * MaxFiles * MaxMessages
HandleLimit == IF chat.pc = "off" THEN MaxHandles ELSE 1 + MaxFiles * (1 + 5 * MaxMessages)

\* ------------------------------------------------------------------ helpers
\* time.Time.Unix(): whole seconds since the epoch.
Unix(t) == t \div TicksPerSecond

Min(S) == CHOOSE x \in S : \A y \in S : x <= y

\* All orders a `range` over a map with key set S can produce.
Orders(S) ==
    {o \in [1 .. Cardinality(S) -> S] : \A i, j \in 1 .. Cardinality(S) : o[i] = o[j] => i = j}

IdleFrame == [pc |-> "idle", res |-> 0, now |-> 0, step |-> 0, cursor |-> <<>>]
NoPrev == [valid |-> FALSE, res |-> 0, lines |-> <<>>]
NoCall ==
    [op |-> "none", name |-> "", at |-> 0, dropped |-> FALSE, diag |-> <<>>,
     res |-> 0, err |-> "nil", steps |-> 0, h |-> 0]

\* The bytes of one output line, "%s %d %d\n": name, value, unix seconds.
Text(lines) == [i \in DOMAIN lines |-> <<lines[i].name, lines[i].value, lines[i].unix>>]

\* ------------------------------------------------------------------ record.forward
\* Mutant: the followup test reads !to.After(r.next.at), so a record lying
\* exactly on the step is not yet taken.
RECURSIVE forwardBefore(_, _)
forwardBefore(r, to) ==
    IF nodes[r].at > to
    THEN [rec |-> Nil, more |-> TRUE]
    ELSE IF nodes[r].next = Nil
    THEN [rec |-> r, more |-> FALSE]
    ELSE IF nodes[nodes[r].next].at >= to
    THEN [rec |-> r, more |-> TRUE]
    ELSE forwardBefore(nodes[r].next, to)

\* Mutant: a record that has not started yet is returned instead of nil.
RECURSIVE forwardUnstarted(_, _)
forwardUnstarted(r, to) ==
    IF nodes[r].at > to
    THEN [rec |-> r, more |-> TRUE]
    ELSE IF nodes[r].next = Nil
    THEN [rec |-> r, more |-> FALSE]
    ELSE IF nodes[nodes[r].next].at > to
    THEN [rec |-> r, more |-> TRUE]
    ELSE forwardUnstarted(nodes[r].next, to)

RECURSIVE forward(_, _)
forward(r, to) ==
    IF nodes[r].at > to
    THEN [rec |-> Nil, more |-> TRUE]
    ELSE IF nodes[r].next = Nil
    THEN [rec |-> r, more |-> FALSE]
    ELSE IF nodes[nodes[r].next].at > to
    THEN [rec |-> r, more |-> TRUE]
    ELSE forward(nodes[r].next, to)

\* ------------------------------------------------------------------ linkedListRecorder
newLinkedListRecorder ==
    /\ nodes = <<>>
    /\ first = <<>>
    /\ current = <<>>

\* Mutant: the new record holds the amount alone, not the running total.
IncAppendNoSum(cur, value, at) ==
    Append([nodes EXCEPT ![cur].next = Len(nodes) + 1],
           [value |-> value, at |-> at, next |-> Nil])

\* Mutant: the new record is not linked behind the tail.
IncAppendUnlinked(cur, value, at) ==
    Append(nodes, [value |-> (nodes[cur].value + value) % Modulus, at |-> at, next |-> Nil])

\* Mutant: one tail for the whole recorder (the record created last) instead
\* of one per name.
IncAppendGlobalTail(cur, value, at) ==
    Append([nodes EXCEPT ![Len(nodes)].next = Len(nodes) + 1],
           [value |-> (nodes[Len(nodes)].value + value) % Modulus, at |-> at,
            next |-> Nil])

\* The heap after Inc appends a record behind the tail `cur`.
IncAppend(cur, value, at) ==
    Append([nodes EXCEPT ![cur].next = Len(nodes) + 1],
           [value |-> (nodes[cur].value + value) % Modulus, at |-> at, next |-> Nil])

\* Mutant: Inc also ignores a record at the very time of the tail.
IncIgnoresEqual(cur, at) == nodes[cur].at >= at

\* Mutant: Inc never ignores a record.
IncIgnoresNever(cur, at) == FALSE

\* Inc ignores a record that lies before the tail of its series.
IncIgnores(cur, at) == nodes[cur].at > at

Inc(name, value, at) ==
    /\ IF name \in DOMAIN current
       THEN IF IncIgnores(current[name], at)
            THEN /\ UNCHANGED <<nodes, first, current, accepted>>
                 /\ last' = [NoCall EXCEPT !.op = "Inc", !.name = name, !.at = at,
                                !.dropped = TRUE,
                                !.diag = <<name, Unix(at), Unix(nodes[current[name]].at)>>]
            ELSE /\ Len(nodes) < NodeLimit
                 /\ nodes' = IncAppend(current[name], value, at)
                 /\ current' = [current EXCEPT ![name] = Len(nodes) + 1]
                 /\ UNCHANGED first
                 /\ accepted' = Append(accepted, [name |-> name, value |-> value, at |-> at])
                 /\ last' = [NoCall EXCEPT !.op = "Inc", !.name = name, !.at = at]
       ELSE /\ Len(nodes) < NodeLimit
            /\ nodes' = Append(nodes, [value |-> value, at |-> at, next |-> Nil])
            /\ first' = (name :> Len(nodes) + 1) @@ first
            /\ current' = (name :> Len(nodes) + 1) @@ current
            /\ accepted' = Append(accepted, [name |-> name, value |-> value, at |-> at])
            /\ last' = [NoCall EXCEPT !.op = "Inc", !.name = name, !.at = at]
    /\ out' = <<>>
    /\ prev' = NoPrev
    /\ UNCHANGED w

\* Write, lines 187-196: the start time, and whether there is none.
WriteStart == Min({nodes[first[n]].at : n \in DOMAIN first})
\* Mutant: the test for "no records" is off by one.
WriteNoRecordsOffByOne == Cardinality(DOMAIN first) <= 1
WriteNoRecords == DOMAIN first = {}

\* Write, lines 187-201: ErrNoRecords, or the cursors set to the heads.

WriteBegin(resolution) ==
    /\ w.pc = "idle"
    /\ ~panicked
    /\ prev' = IF last.op = "Write" /\ last.res = resolution /\ last.err = "nil"
               THEN [valid |-> TRUE, res |-> last.res, lines |-> out]
               ELSE NoPrev
    /\ out' = <<>>
    /\ IF WriteNoRecords
       THEN /\ last' = [NoCall EXCEPT !.op = "Write", !.res = resolution,
                           !.err = "ErrNoRecords"]
            /\ UNCHANGED w
       ELSE /\ w' = [pc |-> "loop", res |-> resolution, now |-> WriteStart, step |-> 0,
                     cursor |-> first]
            /\ last' = NoCall
    /\ UNCHANGED <<nodes, first, current, accepted, panicked, arrays, handles, calls>>

\* Mutant: a series that has not started ends the pass (break for continue).
RECURSIVE WriteRangeBreak(_, _, _)
WriteRangeBreak(ord, st, failAt) ==
    IF ord = <<>>
    THEN st
    ELSE LET name == Head(ord)
             f == forward(st.cursor[name], w.now)
         IN  IF f.rec = Nil
             THEN st
             ELSE LET moved == [st EXCEPT
                                   !.active = st.active \/ f.more,
                                   !.cursor = IF f.more
                                              THEN [st.cursor EXCEPT ![name] = f.rec]
                                              ELSE st.cursor,
                                   !.calls = st.calls + 1]
                      line == [name |-> name, value |-> nodes[f.rec].value,
                               unix |-> Unix(w.now), step |-> w.step, now |-> w.now]
                  IN  IF moved.calls = failAt
                      THEN [moved EXCEPT !.err = TRUE]
                      ELSE WriteRangeBreak(Tail(ord),
                                           [moved EXCEPT !.out = Append(st.out, line)], failAt)

\* Write, lines 216-233: one pass over the cursors in the order `ord`; the
\* Fprintf numbered failAt (0: none) returns an error.
RECURSIVE WriteRange(_, _, _)
WriteRange(ord, st, failAt) ==
    IF ord = <<>>
    THEN st
    ELSE LET name == Head(ord)
             f == forward(st.cursor[name], w.now)
         IN  IF f.rec = Nil
             THEN WriteRange(Tail(ord), st, failAt)
             ELSE LET moved == [st EXCEPT
                                   !.active = st.active \/ f.more,
                                   !.cursor = IF f.more
                                              THEN [st.cursor EXCEPT ![name] = f.rec]
                                              ELSE st.cursor,
                                   !.calls = st.calls + 1]
                      line == [name |-> name, value |-> nodes[f.rec].value,
                               unix |-> Unix(w.now), step |-> w.step, now |-> w.now]
                  IN  IF moved.calls = failAt
                      THEN [moved EXCEPT !.err = TRUE]
                      ELSE WriteRange(Tail(ord), [moved EXCEPT !.out = Append(st.out, line)],
                                      failAt)

\* Mutant: the cursors are r.first itself (current := r.first), so moving a
\* cursor moves the head.
WriteFirstAliased(cursor) == cursor

\* Write, lines 198-201 and 225: the cursors are a copy of r.first, so
\* r.first is what it was whatever the cursors have become.
WriteFirst(cursor) == first

\* Write, lines 204-238: one iteration of the loop over time.
WriteStep ==
    /\ w.pc = "loop"
    /\ w.step < MaxSteps
    /\ \E ord \in Orders(DOMAIN w.cursor), failAt \in 0 .. Cardinality(DOMAIN w.cursor) :
         LET st == WriteRange(ord, [cursor |-> w.cursor, active |-> FALSE, out |-> out,
                                    err |-> FALSE, calls |-> 0], failAt)
             done == [NoCall EXCEPT !.op = "Write", !.res = w.res, !.steps = w.step + 1]
         IN  /\ out' = st.out
             /\ first' = WriteFirst(st.cursor)
             /\ IF st.err
                THEN /\ w' = IdleFrame
                     /\ last' = [done EXCEPT !.err = "io"]
                ELSE IF ~st.active
                THEN /\ w' = IdleFrame
                     /\ last' = done
                ELSE /\ w' = [w EXCEPT !.cursor = st.cursor, !.now = w.now + w.res,
                                       !.step = w.step + 1]
                     /\ UNCHANGED last
    /\ UNCHANGED <<nodes, current, prev, accepted, panicked, arrays, handles, calls, chat>>

\* ------------------------------------------------------------------ labels
\* A labels value is a slice: a backing array and a length.  labels{} is the
\* empty slice without an array.
EmptyLabels == [arr |-> Nil, len |-> 0]
Elems(l) == [i \in 1 .. l.len |-> arrays[l.arr][i]]
ZeroLabel == [key |-> "", value |-> ""]

\* Mutant: the copy of the receiver's labels is missing.
withNoCopy(l, key, value) ==
    LET made == [i \in 1 .. l.len + 1 |-> ZeroLabel]
        set == [made EXCEPT ![l.len + 1] = [key |-> key, value |-> value]]
    IN  [arrays |-> Append(arrays, set), slice |-> [arr |-> Len(arrays) + 1, len |-> l.len + 1]]

\* labels.with: make(labels, len(l)+1), copy, set the last element.  The
\* result is the new heap of arrays and the slice returned.
with(l, key, value) ==
    LET made == [i \in 1 .. l.len + 1 |-> ZeroLabel]
        copied == [i \in 1 .. l.len + 1 |-> IF i <= l.len THEN arrays[l.arr][i] ELSE made[i]]
        set == [copied EXCEPT ![l.len + 1] = [key |-> key, value |-> value]]
    IN  [arrays |-> Append(arrays, set), slice |-> [arr |-> Len(arrays) + 1, len |-> l.len + 1]]

\* %#v of a string: a double-quoted Go literal; " and \ are escaped.
RECURSIVE Escape(_)
Escape(s) ==
    IF s = ""
    THEN ""
    ELSE (IF Head(s) \in {"\"", "\\"} THEN "\\" \o Head(s) ELSE Head(s)) \o Escape(Tail(s))

Quote(s) == "\"" \o Escape(s) \o "\""

\* The loop of labels.String: key=%#v, for every label.
RECURSIVE labelsJoin(_)
labelsJoin(ls) ==
    IF ls = <<>>
    THEN ""
    ELSE Head(ls).key \o "=" \o Quote(Head(ls).value) \o "," \o labelsJoin(Tail(ls))

\* labels.String: s[:len(s)-1] panics when s is empty.
labelsString(l) ==
    LET s == labelsJoin(Elems(l))
    IN  IF Len(s) = 0
        THEN [panic |-> TRUE, s |-> ""]
        ELSE [panic |-> FALSE, s |-> SubSeq(s, 1, Len(s) - 1)]

\* ------------------------------------------------------------------ Metrics, Metric
\* NewMetrics: the root handle.  `from` and `added` are history: the handle
\* this one was derived from and the label With was given.
NewMetrics ==
    /\ arrays = <<>>
    /\ handles = <<[kind |-> "Metrics", name |-> "", labels |-> EmptyLabels, from |-> 0,
                    added |-> ZeroLabel]>>

\* Metrics.With and Metric.With
With(h, key, value) ==
    /\ ~panicked
    /\ w.pc = "idle"
    /\ Len(handles) < HandleLimit
    /\ LET r == with(handles[h].labels, key, value)
       IN  /\ arrays' = r.arrays
           /\ handles' = Append(handles, [kind |-> handles[h].kind, name |-> handles[h].name,
                                          labels |-> r.slice, from |-> h,
                                          added |-> [key |-> key, value |-> value]])
    /\ UNCHANGED <<recVars, panicked, calls>>

\* Metrics.Metric
Metric(h, name) ==
    /\ ~panicked
    /\ w.pc = "idle"
    /\ handles[h].kind = "Metrics"
    /\ Len(handles) < HandleLimit
    /\ handles' = Append(handles, [kind |-> "Metric", name |-> name,
                                   labels |-> handles[h].labels, from |-> h,
                                   added |-> ZeroLabel])
    /\ UNCHANGED <<recVars, panicked, arrays, calls>>

\* Metric.Inc
MetricInc(h, value, at) ==
    /\ ~panicked
    /\ w.pc = "idle"
    /\ handles[h].kind = "Metric"
    /\ LET ls == labelsString(handles[h].labels)
           s == handles[h].name \o "{" \o ls.s \o "}"
       IN  IF ls.panic
           THEN /\ panicked' = TRUE
                /\ last' = [NoCall EXCEPT !.op = "Metric.Inc", !.name = handles[h].name,
                               !.at = at, !.err = "panic", !.h = h]
                /\ UNCHANGED <<nodes, first, current, w, out, prev, accepted, calls>>
           ELSE /\ Inc(s, value, at)
                /\ calls' = calls \cup {[name |-> handles[h].name,
                                         labels |-> Elems(handles[h].labels), id |-> s]}
                /\ UNCHANGED panicked
    /\ UNCHANGED <<arrays, handles>>

\* ------------------------------------------------------------------ specification
Init ==
    /\ newLinkedListRecorder
    /\ w = IdleFrame
    /\ out = <<>>
    /\ prev = NoPrev
    /\ last = NoCall
    /\ accepted = <<>>
    /\ panicked = FALSE
    /\ NewMetrics
    /\ calls = {}
    /\ chat = NoChat

\* A call of the recorder's Inc with a name of the caller's choosing.
IncCall ==
    /\ ~panicked
    /\ w.pc = "idle"
    /\ \E name \in Names, value \in Amounts, at \in Times : Inc(name, value, at)
    /\ UNCHANGED <<panicked, arrays, handles, calls, chat>>

\* Metrics.Write hands the call to its recorder.
MetricsWrite(h, resolution) ==
    /\ handles[h].kind = "Metrics"
    /\ WriteBegin(resolution)

WriteCall ==
    /\ \E h \in DOMAIN handles, resolution \in Resolutions : MetricsWrite(h, resolution)
    /\ UNCHANGED chat

Next ==
    \/ IncCall
    \/ WriteCall
    \/ WriteStep

Spec == Init /\ [][Next]_vars

\* The recorder behind label handles: With, Metric and Metric.Inc.
WithCall ==
    /\ \E h \in DOMAIN handles, key \in LabelKeys, value \in LabelValues :
           With(h, key, value)
    /\ UNCHANGED chat
MetricCall ==
    /\ \E h \in DOMAIN handles, name \in CounterNames : Metric(h, name)
    /\ UNCHANGED chat
MetricIncCall ==
    /\ \E h \in DOMAIN handles, at \in {0, 1} : MetricInc(h, 1, at)
    /\ UNCHANGED chat

NextMetrics ==
    \/ WithCall
    \/ MetricCall
    \/ MetricIncCall

SpecMetrics == Init /\ [][NextMetrics]_vars

\* ------------------------------------------------------------------ chat analysis
metricsPrefix == "tg_"
tgMessagesTotal == metricsPrefix \o "messages_total"
tgExpressionsTotal == metricsPrefix \o "expressions_total"
tgBytesTotal == metricsPrefix \o "bytes_total"

Messages == [from : Senders, date : Dates, texts : TextLists]
SeqsUpTo(S, n) == UNION {[1 .. k -> S] : k \in 0 .. n}

\* tgexport.ReadFile: the messages of the export at a path.
ReadFile(path) == chat.exports[path]

\* applySenderAliases: every sender that is a key of the alias map is replaced.
applySenderAliases(data, aliases) ==
    [i \in DOMAIN data |->
        IF \E a \in aliases : a.old = data[i].from
        THEN [data[i] EXCEPT !.from = (CHOOSE a \in aliases : a.old = data[i].from).new]
        ELSE data[i]]

\* regexp.MatchString of a literal pattern: the text contains the pattern.
MatchString(expr, text) ==
    \E i \in 1 .. Len(text) - Len(expr) + 1 : SubSeq(text, i, i + Len(expr) - 1) = expr

\* readAndAnalyzeChatExports is called with a list of files; the recorder is
\* the one NewMetrics has just made.
InitChat ==
    /\ newLinkedListRecorder
    /\ w = IdleFrame
    /\ out = <<>>
    /\ prev = NoPrev
    /\ last = NoCall
    /\ accepted = <<>>
    /\ panicked = FALSE
    /\ NewMetrics
    /\ calls = {}
    /\ chat \in {[NoChat EXCEPT !.pc = "file", !.files = fs,
                                !.exports = [f \in Files |-> IF f = "a.json" THEN xa ELSE xb],
                                !.aliases = al, !.expressions = ex, !.fi = 1] :
                    fs \in FileLists,
                    xa \in SeqsUpTo(Messages, MaxMessages),
                    xb \in SeqsUpTo([from : Senders, date : Dates, texts : {<<>>}],
                                    MaxMessages - 1),
                    al \in AliasMaps,
                    ex \in ExpressionLists}

ChatLocal == UNCHANGED <<recVars, panicked, arrays, handles, calls>>

\* readAndAnalyzeChatExports, lines 75-84: the next file is read, the aliases
\* are applied and the file's handle is derived from the root handle.
ChatFile ==
    /\ chat.pc = "file"
    /\ IF chat.fi > Len(chat.files)
       THEN /\ chat' = [chat EXCEPT !.pc = "done"]
            /\ ChatLocal
       ELSE LET in == chat.files[chat.fi]
            IN  /\ With(1, "file", in)
                /\ chat' = [chat EXCEPT
                               !.pc = "msg",
                               !.data = applySenderAliases(ReadFile(in), chat.aliases),
                               !.mi = 1,
                               !.hFile = Len(handles) + 1]

\* Mutant: the check of the sender is missing.
ChatSkipsNone(msg) == FALSE

\* analyzeChat, lines 76-78: a message without a sender is skipped.
ChatSkips(msg) == msg.from = ""

\* analyzeChat, lines 75-79: the next message; senderMetrics is derived.
ChatMessage ==
    /\ chat.pc = "msg"
    /\ IF chat.mi > Len(chat.data)
       THEN /\ chat' = [chat EXCEPT !.pc = "file", !.fi = @ + 1]
            /\ ChatLocal
       ELSE IF ChatSkips(chat.data[chat.mi])
       THEN /\ chat' = [chat EXCEPT !.mi = @ + 1]
            /\ ChatLocal
       ELSE /\ With(chat.hFile, "sender", chat.data[chat.mi].from)
            /\ chat' = [chat EXCEPT !.pc = "messagesMetric", !.hSender = Len(handles) + 1]

\* analyzeChat, line 81: senderMetrics.Metric(tgMessagesTotal)
ChatMessagesMetric ==
    /\ chat.pc = "messagesMetric"
    /\ Metric(chat.hSender, tgMessagesTotal)
    /\ chat' = [chat EXCEPT !.pc = "messagesInc", !.hMetric = Len(handles) + 1]

\* analyzeChat, line 81: .Inc(1, time.Time(msg.Date))
ChatMessagesInc ==
    /\ chat.pc = "messagesInc"
    /\ MetricInc(chat.hMetric, 1, chat.data[chat.mi].date)
    /\ chat' = [chat EXCEPT !.pc = "text", !.ti = 1]

\* analyzeChat, lines 82-83: the next text entity; senderMetrics.Metric(tgBytesTotal)
ChatText ==
    /\ chat.pc = "text"
    /\ IF chat.ti > Len(chat.data[chat.mi].texts)
       THEN /\ chat' = [chat EXCEPT !.pc = "msg", !.mi = @ + 1]
            /\ ChatLocal
       ELSE /\ Metric(chat.hSender, tgBytesTotal)
            /\ chat' = [chat EXCEPT !.pc = "bytesInc", !.hMetric = Len(handles) + 1]

\* analyzeChat, line 83: .Inc(uint64(len(txt.Text)), time.Time(msg.Date))
ChatBytesInc ==
    /\ chat.pc = "bytesInc"
    /\ MetricInc(chat.hMetric, Len(chat.data[chat.mi].texts[chat.ti]) % Modulus,
                 chat.data[chat.mi].date)
    /\ chat' = [chat EXCEPT !.pc = "expression", !.ei = 1]

\* analyzeChat, lines 84-86: the next expression;
\* senderMetrics.Metric(tgExpressionsTotal) when it matches the text.
ChatExpression ==
    /\ chat.pc = "expression"
    /\ IF chat.ei > Len(chat.expressions)
       THEN /\ chat' = [chat EXCEPT !.pc = "text", !.ti = @ + 1]
            /\ ChatLocal
       ELSE IF ~MatchString(chat.expressions[chat.ei], chat.data[chat.mi].texts[chat.ti])
       THEN /\ chat' = [chat EXCEPT !.ei = @ + 1]
            /\ ChatLocal
       ELSE /\ Metric(chat.hSender, tgExpressionsTotal)
            /\ chat' = [chat EXCEPT !.pc = "expressionWith", !.hMetric = Len(handles) + 1]

\* analyzeChat, line 86: .With("expression", expr.String())
ChatExpressionWith ==
    /\ chat.pc = "expressionWith"
    /\ With(chat.hMetric, "expression", chat.expressions[chat.ei])
    /\ chat' = [chat EXCEPT !.pc = "expressionInc", !.hMetric = Len(handles) + 1]

\* analyzeChat, line 86: .Inc(1, time.Time(msg.Date))
ChatExpressionInc ==
    /\ chat.pc = "expressionInc"
    /\ MetricInc(chat.hMetric, 1, chat.data[chat.mi].date)
    /\ chat' = [chat EXCEPT !.pc = "expression", !.ei = @ + 1]

NextChat ==
    \/ ChatFile
    \/ ChatMessage
    \/ ChatMessagesMetric
    \/ ChatMessagesInc
    \/ ChatText
    \/ ChatBytesInc
    \/ ChatExpression
    \/ ChatExpressionWith
    \/ ChatExpressionInc

SpecChat == InitChat /\ [][NextChat]_vars

\* ------------------------------------------------------------------ properties
\* The resolution of the Write call whose sink `out` is.
CallRes == IF w.pc = "loop" THEN w.res ELSE last.res
\* The latest Write call has returned nil.
Returned == w.pc = "idle" /\ last.op = "Write" /\ last.err = "nil"

RECURSIVE SumUpTo(_, _, _)
SumUpTo(incs, name, t) ==
    IF incs = <<>>
    THEN 0
    ELSE (IF Head(incs).name = name /\ Head(incs).at <= t THEN Head(incs).value ELSE 0)
         + SumUpTo(Tail(incs), name, t)

Upto(name, t) == {i \in DOMAIN accepted : accepted[i].name = name /\ accepted[i].at <= t}

\* C1 as stated: with a positive resolution, every sample emitted for a
\* series at step time t carries the sum of the amounts of the accepted
\* increments of that series with timestamp <= t.
C1_SampleIsSum ==
    CallRes > 0 =>
        \A i \in DOMAIN out : out[i].value = SumUpTo(accepted, out[i].name, out[i].now)

\* C1 amended: with a positive resolution, every sample emitted for a series
\* at step time t carries the sum of the amounts of the accepted increments
\* of that series with timestamp <= t, taken modulo 2^64 (uint64 addition).
C1_SampleIsSumModulo ==
    CallRes > 0 =>
        \A i \in DOMAIN out :
            out[i].value = SumUpTo(accepted, out[i].name, out[i].now) % Modulus

\* A sample forward-fills two increments while a third one is still ahead.
C1_Witness ==
    /\ CallRes > 0
    /\ \E i \in DOMAIN out :
           /\ Cardinality(Upto(out[i].name, out[i].now)) >= 2
           /\ \E j \in DOMAIN accepted :
                  accepted[j].name = out[i].name /\ accepted[j].at > out[i].now

\* C2: when Write returns nil (positive resolution), the emissions of its
\* last step hold a sample for every registered series, and that sample
\* carries the value of the series' final node.
C2_LastStepHasEverySeries ==
    (Returned /\ last.res > 0) =>
        \A n \in DOMAIN first :
            \E i \in DOMAIN out :
                /\ out[i].step = last.steps - 1
                /\ out[i].name = n
                /\ out[i].value = nodes[current[n]].value

\* C3: a Write call that returns nil with a positive resolution has processed
\* exactly ceil((L - S) / resolution) + 1 steps, S the minimum head timestamp
\* and L the latest node timestamp over all series.
Max(S) == CHOOSE x \in S : \A y \in S : x >= y
LatestAt == Max({nodes[i].at : i \in DOMAIN nodes})
CeilDiv(a, b) == (a + b - 1) \div b
C3_StepCount ==
    (Returned /\ last.res > 0) =>
        last.steps = CeilDiv(LatestAt - WriteStart, last.res) + 1

\* C4 as stated: two Write calls on the same recorder state with the same
\* resolution and no Inc between them produce byte-identical output.
C4_ByteIdentical ==
    (Returned /\ prev.valid) => Text(out) = Text(prev.lines)

\* C4 amended: two such calls produce the same steps in the same order and
\* the same set of lines in every step (the order of the lines of different
\* series within a step is the map's iteration order and may differ); with
\* a single series the output is byte-identical.
StepLines(lines, k) == {Text(lines)[i] : i \in {j \in DOMAIN lines : lines[j].step = k}}
StepsInOrder(lines) == \A i, j \in DOMAIN lines : i <= j => lines[i].step <= lines[j].step
C4_SameLinesPerStep ==
    (Returned /\ prev.valid) =>
        /\ Len(out) = Len(prev.lines)
        /\ StepsInOrder(out) /\ StepsInOrder(prev.lines)
        /\ \A k \in 0 .. MaxSteps : StepLines(out, k) = StepLines(prev.lines, k)
        /\ Cardinality(DOMAIN first) = 1 => Text(out) = Text(prev.lines)

\* A second Write call has returned after a first one that wrote two series
\* within one step.
C4_Witness ==
    /\ Returned
    /\ prev.valid
    /\ \E i, j \in DOMAIN out : out[i].step = out[j].step /\ out[i].name # out[j].name

\* C5: an Inc on an existing series with a timestamp strictly before the
\* tail's returns normally and leaves the chain, the head, the tail and the
\* total unchanged; an Inc with a timestamp at or after the tail's that
\* follows it on the same series is accepted and appended.
C5_OutOfOrderIgnored ==
    [][/\ (/\ last'.op = "Inc"
           /\ last'.name \in DOMAIN current
           /\ last'.at < nodes[current[last'.name]].at)
          => /\ nodes' = nodes
             /\ first' = first
             /\ current' = current
             /\ accepted' = accepted
             /\ last'.dropped
             /\ ~panicked'
       /\ (/\ last.op = "Inc"
           /\ last.dropped
           /\ last'.op = "Inc"
           /\ last'.name = last.name
           /\ last'.at >= nodes[current[last.name]].at)
          => /\ ~last'.dropped
             /\ Len(nodes') = Len(nodes) + 1
             /\ current'[last.name] = Len(nodes')
             /\ nodes[current[last.name]].next = Nil
             /\ nodes'[current[last.name]].next = Len(nodes')
             /\ nodes'[Len(nodes')].at = last'.at
             /\ first' = first
      ]_vars

\* An out-of-order Inc has been ignored while the recorder has room for more.
C5_Witness ==
    /\ last.op = "Inc"
    /\ last.dropped
    /\ Len(nodes) < MaxNodes
    /\ last.at < nodes[current[last.name]].at

\* C6: Write on a recorder on which no Inc was ever accepted returns
\* ErrNoRecords and writes nothing; Write on a recorder with at least one
\* series never returns ErrNoRecords.
C6_EmptyRecorder ==
    (w.pc = "idle" /\ last.op = "Write") =>
        /\ accepted = <<>> => (last.err = "ErrNoRecords" /\ out = <<>>)
        /\ DOMAIN first # {} => last.err # "ErrNoRecords"

\* Write has returned ErrNoRecords.
C6_Witness == w.pc = "idle" /\ last.op = "Write" /\ last.err = "ErrNoRecords"
\* C7: Inc on a Metric that carries no labels completes normally and records
\* the increment under the identity name{}.
C7_EmptyLabelsRecorded ==
    /\ \A h \in DOMAIN handles :
           (handles[h].kind = "Metric" /\ handles[h].labels.len = 0)
               => ~(last.op = "Metric.Inc" /\ last.h = h /\ last.err = "panic")
    /\ \A c \in calls :
           c.labels = <<>> => (c.id = c.name \o "{}" /\ c.id \in DOMAIN first)

\* C8: With returns a new handle whose labels are the receiver's labels with
\* (key, value) appended at the end, and no call changes the labels of a
\* handle obtained before it.
WithMade(h) == handles[h].from # 0 /\ handles[h].added # ZeroLabel
C8_WithDoesNotMutate ==
    [][/\ \A h \in DOMAIN handles :
              /\ h \in DOMAIN handles'
              /\ Elems(handles[h].labels)' = Elems(handles[h].labels)
              /\ handles'[h].kind = handles[h].kind
              /\ handles'[h].name = handles[h].name
       /\ \A h \in DOMAIN handles' :
              (h \notin DOMAIN handles /\ handles'[h].added # ZeroLabel)
                  => /\ handles'[h].from \in DOMAIN handles
                     /\ Elems(handles[h].labels)'
                            = Append(Elems(handles[handles'[h].from].labels),
                                     handles'[h].added)
      ]_vars

\* Two handles were derived with different labels from one parent that has
\* labels of its own.
C8_Witness ==
    \E i, j \in DOMAIN handles :
        /\ WithMade(i) /\ WithMade(j)
        /\ handles[i].from = handles[j].from
        /\ handles[i].added # handles[j].added
        /\ handles[handles[i].from].labels.len >= 1

\* C9: Metric.Inc calls with the same counter name are recorded under the
\* same identity string exactly when their label lists are equal, and every
\* recorded identity is a series of the recorder.
C9_IdentityOfLabels ==
    /\ \A c \in calls : c.id \in DOMAIN first
    /\ \A c, d \in calls : c.name = d.name => (c.labels = d.labels <=> c.id = d.id)

\* C10: samples are emitted at the step times start + k * resolution only
\* (printed as their Unix seconds), at most one per series and step, none
\* for a series before its first record, and one per series at every
\* processed step at or after its first record.
Processed ==
    IF w.pc = "loop" THEN w.step
    ELSE IF last.op = "Write" /\ last.err = "nil" THEN last.steps
    ELSE IF last.op = "Write" /\ last.err = "io" THEN last.steps - 1
    ELSE 0
C10_OneSamplePerStep ==
    (DOMAIN first # {} /\ (w.pc = "loop" \/ last.op = "Write")) =>
        /\ \A i \in DOMAIN out :
               /\ out[i].step >= 0
               /\ out[i].now = WriteStart + out[i].step * CallRes
               /\ out[i].unix = Unix(out[i].now)
               /\ nodes[first[out[i].name]].at <= out[i].now
        /\ \A i, j \in DOMAIN out :
               (out[i].step = out[j].step /\ out[i].name = out[j].name) => i = j
        /\ \A k \in 0 .. Processed - 1 :
               \A n \in DOMAIN first :
                   nodes[first[n]].at <= WriteStart + k * CallRes
                       => \E i \in DOMAIN out : out[i].step = k /\ out[i].name = n

\* A Write call has returned in which one series started after the first
\* step and another was sampled after its last record.
C10_Witness ==
    /\ Returned
    /\ \E i \in DOMAIN out : nodes[first[out[i].name]].at > WriteStart
    /\ \E i \in DOMAIN out : out[i].now > nodes[current[out[i].name]].at
\* C11: a Write call with a zero or negative resolution on a non-empty
\* recorder is rejected at the API boundary: it returns an error and never
\* enters the step loop.
C11_DegenerateResolutionRejected ==
    /\ ~(w.pc = "loop" /\ w.res <= 0)
    /\ (w.pc = "idle" /\ last.op = "Write" /\ last.res <= 0) => last.err # "nil"
\* The records of the chain that starts at record i of the heap, in order.
RECURSIVE ChainOf(_, _, _)
ChainOf(heap, i, fuel) ==
    IF i = Nil \/ fuel = 0 \/ i \notin DOMAIN heap
    THEN <<>>
    ELSE <<i>> \o ChainOf(heap, heap[i].next, fuel - 1)
Chain(name) == ChainOf(nodes, first[name], Len(nodes))
\* The amounts accepted for a series, in call order, and their sum.
AmountsOf(name) == SelectSeq(accepted, LAMBDA a : a.name = name)
Total(name) == SumUpTo(accepted, name, MaxTime)

\* C12 as stated: for every series, the values Write emits for it at
\* consecutive steps are non-decreasing.
C12_EmittedMonotone ==
    \A i, j \in DOMAIN out :
        (i < j /\ out[i].name = out[j].name) => out[i].value <= out[j].value

\* C12 amended: the values Write emits for a series at consecutive steps are
\* non-decreasing as long as the sum of the amounts accepted for that series
\* does not exceed 2^64 - 1 (beyond that the uint64 total wraps around).
C12_EmittedMonotoneNoWrap ==
    \A i, j \in DOMAIN out :
        (i < j /\ out[i].name = out[j].name /\ Total(out[i].name) <= MaxUint)
            => out[i].value <= out[j].value

\* A series whose total fits was sampled twice, the second value larger, while
\* an out-of-order or equal-time increment had been handled before.
C12_Witness ==
    \E i, j \in DOMAIN out :
        /\ i < j
        /\ out[i].name = out[j].name
        /\ Total(out[i].name) <= MaxUint
        /\ out[i].value < out[j].value
        /\ out[i].step < out[j].step

\* C14: the timestamps of every series' chain are non-decreasing from head
\* to tail, and the head holds the earliest timestamp of its series.
C14_ChainTimesOrdered ==
    \A n \in DOMAIN first :
        LET c == Chain(n)
        IN  /\ \A k \in 1 .. Len(c) - 1 : nodes[c[k]].at <= nodes[c[k + 1]].at
            /\ \A k \in 1 .. Len(c) : nodes[first[n]].at <= nodes[c[k]].at

\* An Inc before the tail of a chain of two records has just been handled.
C14_Witness ==
    /\ last.op = "Inc"
    /\ last.dropped
    /\ Len(Chain(last.name)) >= 2

\* C15: first and current have the same keys; current[name] is reached from
\* first[name] along the next links and is the last record of that chain;
\* first[name] and the value and timestamp of its record never change.
C15_HeadTailConsistent ==
    [][/\ DOMAIN first' = DOMAIN current'
       /\ \A n \in DOMAIN first' :
              LET c == ChainOf(nodes', first'[n], Len(nodes'))
              IN  /\ Len(c) >= 1
                  /\ c[Len(c)] = current'[n]
                  /\ nodes'[current'[n]].next = Nil
       /\ \A n \in DOMAIN first :
              /\ n \in DOMAIN first'
              /\ first'[n] = first[n]
              /\ nodes'[first[n]].value = nodes[first[n]].value
              /\ nodes'[first[n]].at = nodes[first[n]].at
      ]_vars

\* Two series exist, one of them with a tail that is not its head.
C15_Witness ==
    /\ Cardinality(DOMAIN first) = 2
    /\ \E n \in DOMAIN first : first[n] # current[n]

\* C16 as stated: the values of every series' chain are non-decreasing from
\* head to tail, for all amounts in the uint64 range.
C16_ChainValuesMonotone ==
    \A n \in DOMAIN first :
        LET c == Chain(n)
        IN  \A k \in 1 .. Len(c) - 1 : nodes[c[k]].value <= nodes[c[k + 1]].value

\* C16 amended: every record's value is the previous record's value plus the
\* amount in uint64 arithmetic (modulo 2^64), and the values of a chain are
\* non-decreasing as long as the sum of the amounts accepted for the series
\* does not exceed 2^64 - 1.
C16_ChainValuesModulo ==
    \A n \in DOMAIN first :
        LET c == Chain(n)
            a == AmountsOf(n)
        IN  /\ Len(c) = Len(a)
            /\ \A k \in 1 .. Len(c) :
                   nodes[c[k]].value
                       = ((IF k = 1 THEN 0 ELSE nodes[c[k - 1]].value) + a[k].value) % Modulus
            /\ Total(n) <= MaxUint
                   => \A k \in 1 .. Len(c) - 1 : nodes[c[k]].value <= nodes[c[k + 1]].value

\* A chain of three records whose total fits and whose values grow.
C16_Witness ==
    \E n \in DOMAIN first :
        /\ Len(Chain(n)) = 3
        /\ Total(n) <= MaxUint
        /\ nodes[first[n]].value < nodes[current[n]].value
\* The last record of a series' chain whose timestamp is not after t.
LastUpTo(name, t) ==
    LET c == Chain(name)
    IN  c[Max({k \in 1 .. Len(c) : nodes[c[k]].at <= t})]

\* C17: an Inc at the very timestamp of the series' tail is accepted and
\* appends a new tail whose value is the tail's value plus the amount (uint64
\* addition), the existing records staying as they were but for the old
\* tail's link; and every sample Write emits carries the value of the last
\* record of the chain that is not after the step time, hence the total of
\* every increment of one instant, never the value of an earlier record.
C17_EqualTimestampsAppend ==
    [][/\ (/\ last'.op = "Inc"
           /\ last'.name \in DOMAIN current
           /\ last'.at = nodes[current[last'.name]].at)
          => LET old == current[last'.name]
                 new == Len(nodes) + 1
             IN  /\ ~last'.dropped
                 /\ Len(accepted') = Len(accepted) + 1
                 /\ Len(nodes') = new
                 /\ current'[last'.name] = new
                 /\ nodes'[old] = [nodes[old] EXCEPT !.next = new]
                 /\ \A i \in DOMAIN nodes : i # old => nodes'[i] = nodes[i]
                 /\ nodes'[new].at = last'.at
                 /\ nodes'[new].next = Nil
                 /\ nodes'[new].value
                        = (nodes[old].value + accepted'[Len(accepted')].value) % Modulus
       /\ \A i \in DOMAIN out' :
              out'[i].value = nodes'[LastUpTo(out[i].name, out[i].now)'].value
      ]_vars

\* Write has emitted a sample of a series at or after an instant at which the
\* series has two records of different values.
C17_Witness ==
    \E i \in DOMAIN out :
        LET c == Chain(out[i].name)
        IN  \E k \in 1 .. Len(c) - 1 :
                /\ nodes[c[k]].at = nodes[c[k + 1]].at
                /\ nodes[c[k]].at <= out[i].now
                /\ nodes[c[k]].value # nodes[c[k + 1]].value

\* C18: an Inc on one identity, accepted or dropped, leaves the head, the
\* tail and every chain record of every other identity unchanged, and neither
\* adds nor removes a key other than its own in first and current.
C18_IncIsLocal ==
    [][last'.op = "Inc" =>
           /\ DOMAIN first \subseteq DOMAIN first'
           /\ DOMAIN current \subseteq DOMAIN current'
           /\ DOMAIN first' \subseteq DOMAIN first \cup {last'.name}
           /\ DOMAIN current' \subseteq DOMAIN current \cup {last'.name}
           /\ \A y \in DOMAIN first \ {last'.name} :
                  /\ first'[y] = first[y]
                  /\ current'[y] = current[y]
                  /\ ChainOf(nodes', first'[y], Len(nodes')) = Chain(y)
                  /\ \A k \in DOMAIN Chain(y) : nodes'[Chain(y)[k]] = nodes[Chain(y)[k]]
      ]_vars

\* An Inc has been accepted behind the tail of one series while another
\* series exists.
C18_Witness ==
    /\ last.op = "Inc"
    /\ ~last.dropped
    /\ Cardinality(DOMAIN first) = 2
    /\ first[last.name] # current[last.name]

\* C19: no step of Write, from its entry to its return with or without an
\* error, changes first, current or any chain record; and an Inc that follows
\* a Write appends behind the same tail with the tail's value plus the amount.
C19_WriteLeavesRecorder ==
    [][/\ (w.pc = "loop" \/ w'.pc = "loop" \/ last'.op = "Write")
          => /\ first' = first
             /\ current' = current
             /\ nodes' = nodes
       /\ (/\ last.op = "Write"
           /\ last'.op = "Inc"
           /\ ~last'.dropped
           /\ last'.name \in DOMAIN current)
          => /\ nodes'[current[last'.name]].next = Len(nodes')
             /\ current'[last'.name] = Len(nodes')
             /\ first'[last'.name] = first[last'.name]
             /\ nodes'[Len(nodes')].value
                    = SumUpTo(accepted', last'.name, MaxTime) % Modulus
      ]_vars

\* Write has returned after moving its cursors off the heads, and the heap
\* has room for a further Inc.
C19_Witness ==
    /\ w.pc = "idle"
    /\ last.op = "Write"
    /\ last.steps >= 2
    /\ \E n \in DOMAIN first : first[n] # current[n]
    /\ Len(nodes) < MaxNodes
HasPrefix(s, p) == Len(s) >= Len(p) /\ SubSeq(s, 1, Len(p)) = p
\* The file and the message analyzeChat is at, and the identity of that
\* sender's tg_messages_total series.
ChatAtFile == chat.files[chat.fi]
ChatAtMessage == chat.data[chat.mi]
ChatSeriesHead(name) ==
    name \o "{file=" \o Quote(ChatAtFile) \o ",sender=" \o Quote(ChatAtMessage.from)
ChatIncs == {"messagesInc", "bytesInc", "expressionInc"}
\* What C13 says of every increment, and of a message without a sender.
ChatIncrementsLabelled ==
    /\ chat.pc \in ChatIncs =>
           LET m == handles[chat.hMetric]
               ls == Elems(m.labels)
           IN  /\ HasPrefix(m.name, "tg_")
               /\ Len(ls) >= 2
               /\ ls[1] = [key |-> "file", value |-> ChatAtFile]
               /\ ls[2] = [key |-> "sender", value |-> ChatAtMessage.from]
               /\ last'.op = "Inc"
               /\ HasPrefix(last'.name, ChatSeriesHead(m.name))
               /\ ChatAtMessage.from # ""
    /\ chat.pc \notin ChatIncs => <<nodes, first, current, accepted, calls>>'
                                      = <<nodes, first, current, accepted, calls>>
    /\ (chat.pc = "msg" /\ chat.mi <= Len(chat.data) /\ ChatAtMessage.from = "")
           => /\ chat' = [chat EXCEPT !.mi = @ + 1]
              /\ UNCHANGED <<recVars, panicked, arrays, handles, calls>>
\* The Inc of line 81 adds 1 (uint64) to the sender's series at the date.
ChatMessageCounted ==
    LET id == ChatSeriesHead(tgMessagesTotal) \o "}"
        before == IF id \in DOMAIN current THEN nodes[current[id]].value ELSE 0
    IN  /\ id \in DOMAIN current'
        /\ current'[id] = Len(nodes) + 1
        /\ Len(nodes') = Len(nodes) + 1
        /\ nodes'[current'[id]].value = (before + 1) % Modulus
        /\ nodes'[current'[id]].at = ChatAtMessage.date
\* The message is older than the latest message counted for its series.
ChatMessageLate ==
    LET id == ChatSeriesHead(tgMessagesTotal) \o "}"
    IN  id \in DOMAIN current /\ nodes[current[id]].at > ChatAtMessage.date

\* C13 as stated: every increment of the chat analysis goes to a series named
\* tg_... whose labels start with file and sender; a message without a
\* sender records nothing; every message with a sender adds exactly 1 to the
\* sender's tg_messages_total at the message's date.
C13_ChatSeries ==
    [][/\ ChatIncrementsLabelled
       /\ chat.pc = "messagesInc" => ChatMessageCounted
      ]_vars

\* C13 amended: as stated, but the message adds 1 only if its date is not
\* before the date of the latest message already counted for the same file
\* and sender; an older message is dropped by Inc and the series stays as
\* it is.
C13_ChatSeriesInOrder ==
    [][/\ ChatIncrementsLabelled
       /\ (chat.pc = "messagesInc" /\ ~ChatMessageLate) => ChatMessageCounted
       /\ (chat.pc = "messagesInc" /\ ChatMessageLate)
              => /\ UNCHANGED <<nodes, first, current, accepted>>
                 /\ last'.dropped
      ]_vars

\* The analysis has ended after it skipped a message without a sender,
\* counted two messages of one series and recorded an expression.
C13_Witness ==
    /\ chat.pc = "done"
    /\ \E f \in DOMAIN chat.exports : \E i \in DOMAIN chat.exports[f] :
           chat.exports[f][i].from = "" /\ f = chat.files[1]
    /\ \E id \in DOMAIN first :
           HasPrefix(id, tgMessagesTotal) /\ first[id] # current[id]
    /\ \E id \in DOMAIN first : HasPrefix(id, tgExpressionsTotal)
====
